---------------------------- MODULE Spec2Model ----------------------------
(***************************************************************************)
(* A model of check-dependencies.js: the outdated-dependency checker.      *)
(*                                                                         *)
(* JavaScript strings are TLA+ strings (Len, SubSeq and \o act on them).   *)
(* A JavaScript value that is not a string is one of two reserved strings  *)
(* that no input of the model contains: Undefined (undefined, a missing    *)
(* field) and NonString (a truthy value without string methods, such as a  *)
(* number or an object).                                                   *)
(***************************************************************************)
EXTENDS Integers, Sequences, FiniteSets, TLC

VARIABLES
    manifest,         \* package.json on disk: "missing", "unparseable" or "ok"
    lockfile,         \* yarn.lock on disk: missing, unparseable, or parsed into entries
    configFile,       \* priority-packages.json: whether it exists, parses, and its list
    registry,         \* registry.npmjs.org's answer for each package name
    releases,         \* api.github.com's answer to the release probe of each package
    mainPc,           \* where main() stands
    dependencies,     \* the map handed to getDependencyUpdates, as Object.entries
    pkgPc,            \* where each package's async callback stands
    slot,             \* what each package's callback resolved with
    settled,          \* the indices of the callbacks, in the order they settled
    queries,          \* the number of outbound requests issued so far
    sortedUpdates,    \* main's sorted list of update records
    priorityUpdates,  \* the first output list
    otherUpdates,     \* the second output list
    stderr,           \* whether an error message was written
    exitCode,         \* the process's exit status, -1 while it runs
    callPc,           \* harness of a single function call: "ready" or "returned"
    callArgs,         \* the arguments of that call
    callResult        \* what the call returned

mainVars == <<manifest, lockfile, configFile, registry, releases, mainPc,
              dependencies, pkgPc, slot, settled, queries, sortedUpdates,
              priorityUpdates, otherUpdates, stderr, exitCode>>
callVars == <<callPc, callArgs, callResult>>
vars == <<mainVars, callVars>>

Undefined == "<undefined>"
NonString == "<number>"
IsString(v) == v \notin {Undefined, NonString}
Truthy(v) == v \notin {Undefined, ""}

(***************************************************************************)
(* String primitives of JavaScript the program uses.                       *)
(***************************************************************************)
Substr(s, i, j) == IF i > j THEN "" ELSE SubSeq(s, i, j)

StartsWith(s, p) == Len(s) >= Len(p) /\ Substr(s, 1, Len(p)) = p

EndsWith(s, p) == Len(s) >= Len(p) /\ Substr(s, Len(s) - Len(p) + 1, Len(s)) = p

\* String.prototype.indexOf, 1-based; 0 when p does not occur in s.
RECURSIVE IndexFrom(_, _, _)
IndexFrom(s, p, i) ==
    IF i + Len(p) - 1 > Len(s) THEN 0
    ELSE IF Substr(s, i, i + Len(p) - 1) = p THEN i
    ELSE IndexFrom(s, p, i + 1)

IndexOf(s, p) == IndexFrom(s, p, 1)

\* String.prototype.replace with a string pattern: the first occurrence only.
ReplaceFirst(s, p, r) ==
    LET i == IndexOf(s, p)
    IN  IF i = 0 THEN s
        ELSE Substr(s, 1, i - 1) \o r \o Substr(s, i + Len(p), Len(s))

\* String.prototype.split with a one-character separator.
RECURSIVE Split(_, _)
Split(s, sep) ==
    LET i == IndexOf(s, sep)
    IN  IF i = 0 THEN <<s>>
        ELSE <<Substr(s, 1, i - 1)>> \o Split(Substr(s, i + 1, Len(s)), sep)

\* Array.prototype.filter(Boolean) on an array of strings.
RECURSIVE FilterNonEmpty(_)
FilterNonEmpty(parts) ==
    IF parts = <<>> THEN <<>>
    ELSE (IF Head(parts) = "" THEN <<>> ELSE <<Head(parts)>>)
         \o FilterNonEmpty(Tail(parts))

(***************************************************************************)
(* normalizeVersion: version.replace(/^[\^~]/, '').                        *)
(***************************************************************************)
RangeChars == {"^", "~"}

\* A plausible slip: the pattern /^[\^~]+/, which strips every leading marker.
RECURSIVE normalizeVersionGreedy(_)
normalizeVersionGreedy(version) ==
    IF Len(version) >= 1 /\ Substr(version, 1, 1) \in RangeChars
    THEN normalizeVersionGreedy(Substr(version, 2, Len(version)))
    ELSE version

normalizeVersion(version) ==
    IF Len(version) >= 1 /\ Substr(version, 1, 1) \in RangeChars
    THEN Substr(version, 2, Len(version))
    ELSE version

(***************************************************************************)
(* SpecNorm: normalizeVersion applied twice to every string of at most     *)
(* MaxLen characters over VersionAlphabet.                                 *)
(***************************************************************************)
MaxLen == 3
VersionAlphabet == {"^", "~", "1", ".", ">"}

RECURSIVE StringsUpTo(_)
StringsUpTo(n) ==
    IF n = 0 THEN {""}
    ELSE LET shorter == StringsUpTo(n - 1)
         IN  shorter \cup {s \o c : s \in shorter, c \in VersionAlphabet}

MainIdle ==
    /\ manifest = "ok"
    /\ lockfile = [state |-> "missing", entries |-> <<>>]
    /\ configFile = [exists |-> FALSE, parses |-> FALSE, priorityPackages |-> <<>>]
    /\ registry = <<>> /\ releases = <<>> /\ mainPc = "idle"
    /\ dependencies = <<>> /\ pkgPc = <<>> /\ slot = <<>> /\ settled = <<>>
    /\ queries = 0 /\ sortedUpdates = <<>>
    /\ priorityUpdates = <<>> /\ otherUpdates = <<>>
    /\ stderr = FALSE /\ exitCode = -1

InitNorm ==
    /\ MainIdle
    /\ callPc = "ready"
    /\ callArgs \in {<<v>> : v \in StringsUpTo(MaxLen)}
    /\ callResult = <<>>

\* One call of normalizeVersion: on the argument, then on each result.
CallNormalize ==
    /\ callPc = "ready"
    /\ Len(callResult) < 2
    /\ callResult' = Append(callResult,
            normalizeVersion(IF callResult = <<>> THEN callArgs[1]
                             ELSE callResult[Len(callResult)]))
    /\ UNCHANGED <<callPc, callArgs, mainVars>>

SpecNorm == InitNorm /\ [][CallNormalize]_vars

LeadingMarkers(v) ==
    IF Len(v) >= 2 /\ Substr(v, 1, 1) \in RangeChars /\ Substr(v, 2, 2) \in RangeChars
    THEN 2
    ELSE IF Len(v) >= 1 /\ Substr(v, 1, 1) \in RangeChars THEN 1 ELSE 0

\* C7 (as claimed): normalizeVersion(normalizeVersion(v)) = normalizeVersion(v)
\* for every version string v, those with several leading markers included.
C7_Idempotent ==
    Len(callResult) = 2 => callResult[2] = callResult[1]

\* C7 (amended): normalizeVersion removes exactly one leading '^' or '~' and
\* leaves any other string unchanged; applying it twice equals applying it once
\* exactly for the strings with at most one leading marker, and a string with
\* two leading markers loses one of them at each application.
C7_SingleStripIdempotentOnOneMarker ==
    LET v == callArgs[1] IN
    /\ Len(callResult) >= 1 =>
         /\ LeadingMarkers(v) = 0 => callResult[1] = v
         /\ LeadingMarkers(v) >= 1 =>
              /\ Len(callResult[1]) = Len(v) - 1
              /\ Substr(v, 1, 1) \o callResult[1] = v
    /\ Len(callResult) = 2 =>
         /\ LeadingMarkers(v) <= 1 => callResult[2] = callResult[1]
         /\ LeadingMarkers(v) = 2 =>
              /\ callResult[2] # callResult[1]
              /\ Len(callResult[2]) = Len(v) - 2

\* A doubly marked version, normalized twice.
C7_Witness ==
    /\ Len(callResult) = 2
    /\ LeadingMarkers(callArgs[1]) = 2
    /\ Len(callArgs[1]) = 3

(***************************************************************************)
(* getPackagesFromYarnLock, lines 75-90: the parsed lockfile is the        *)
(* sequence of its entries [key, version] in Object.keys order; a map      *)
(* (the declared dependencies, the result) is the sequence of its          *)
(* <<name, value>> entries in insertion order.                             *)
(***************************************************************************)
HasKey(map, k) == \E i \in DOMAIN map : map[i][1] = k
ValueOf(map, k) == map[CHOOSE i \in DOMAIN map : map[i][1] = k][2]

\* const [lockedPkg, version] = key.split('@').filter(Boolean)
lockedPkg(key) ==
    LET parts == FilterNonEmpty(Split(key, "@"))
    IN  IF parts = <<>> THEN Undefined ELSE parts[1]

\* A plausible slip: stop at the first entry of that name.
RECURSIVE scanFirstMatch(_, _, _)
scanFirstMatch(pkg, parsedYarnLock, found) ==
    IF parsedYarnLock = <<>> THEN found
    ELSE IF found = <<>> /\ pkg = lockedPkg(Head(parsedYarnLock).key)
         THEN <<Head(parsedYarnLock).version>>
         ELSE scanFirstMatch(pkg, Tail(parsedYarnLock), found)

\* Object.keys(parsedYarnLock).forEach(...), lines 81-86: every entry of that
\* name assigns dependencies[pkg], so the one visited last stays.
RECURSIVE scanLock(_, _, _)
scanLock(pkg, parsedYarnLock, found) ==
    IF parsedYarnLock = <<>> THEN found
    ELSE scanLock(pkg, Tail(parsedYarnLock),
                  IF pkg = lockedPkg(Head(parsedYarnLock).key)
                  THEN <<Head(parsedYarnLock).version>>
                  ELSE found)

\* The body of the outer forEach for one declared package: <<version>>, or <<>>
\* when dependencies[pkg] is never assigned.
resolveOne(pkg, range, parsedYarnLock) ==
    LET dependencyKey == pkg \o "@" \o range
        exact == {i \in DOMAIN parsedYarnLock : parsedYarnLock[i].key = dependencyKey}
    IN  IF exact # {}
        THEN <<parsedYarnLock[CHOOSE i \in exact : TRUE].version>>
        ELSE scanLock(pkg, parsedYarnLock, <<>>)

RECURSIVE getPackagesFromYarnLock(_, _)
getPackagesFromYarnLock(packageJsonDependencies, parsedYarnLock) ==
    IF packageJsonDependencies = <<>> THEN <<>>
    ELSE LET pkg == Head(packageJsonDependencies)[1]
             got == resolveOne(pkg, Head(packageJsonDependencies)[2], parsedYarnLock)
         IN  (IF got = <<>> THEN <<>> ELSE << <<pkg, got[1]>> >>)
             \o getPackagesFromYarnLock(Tail(packageJsonDependencies), parsedYarnLock)

(***************************************************************************)
(* SpecLock: getPackagesFromYarnLock on every manifest of DeclaredMaps and *)
(* every lockfile of at most MaxLock entries with distinct keys.           *)
(***************************************************************************)
MaxLock == 3
LockRanges == {"^1.2.0", "^1.0.0"}
DeclaredMaps ==
    {<< <<"widget", r>> >> : r \in LockRanges}
    \cup {<< <<"@acme/w", r1>>, <<"widget", r2>> >> : r1 \in LockRanges, r2 \in LockRanges}
LockKeys == {"widget@^1.2.0", "widget@^1.0.0", "widget@~1.1.0",
             "@acme/w@^1.0.0", "gadget@^1.2.0"}
LockVersions == {"1.2.5", "1.0.9", Undefined}
LockEntries == [key : LockKeys, version : LockVersions]

RECURSIVE LockfilesUpTo(_)
LockfilesUpTo(n) ==
    IF n = 0 THEN {<<>>}
    ELSE LET shorter == LockfilesUpTo(n - 1)
         IN  shorter \cup
             {Append(l, e) : l \in shorter, e \in LockEntries} 

DistinctKeys(l) == \A i, j \in DOMAIN l : l[i].key = l[j].key => i = j

InitLock ==
    /\ MainIdle
    /\ callPc = "ready"
    /\ callArgs \in {<<d, l>> : d \in DeclaredMaps,
                               l \in {x \in LockfilesUpTo(MaxLock) : DistinctKeys(x)}}
    /\ callResult = <<>>

CallResolveLock ==
    /\ callPc = "ready"
    /\ callPc' = "returned"
    /\ callResult' = getPackagesFromYarnLock(callArgs[1], callArgs[2])
    /\ UNCHANGED <<callArgs, mainVars>>

SpecLock == InitLock /\ [][CallResolveLock]_vars

\* The name portion of a lock key as the claim reads it: what precedes the '@'
\* that starts the range (a leading '@' belongs to a scoped name).
ClaimedKeyName(key) ==
    LET at == IndexOf(Substr(key, 2, Len(key)), "@")
    IN  IF at = 0 THEN key ELSE Substr(key, 1, at)

MinOf(S) == CHOOSE i \in S : \A j \in S : i <= j
MaxOf(S) == CHOOSE i \in S : \A j \in S : i >= j

\* What the result must hold for one declared package, given the indices of
\* the lock entries that match it by name and which of them is to be taken.
ResolvedAs(result, lock, pkg, range, byName, pick) ==
    LET exact == {i \in DOMAIN lock : lock[i].key = pkg \o "@" \o range}
    IN  IF exact # {}
        THEN HasKey(result, pkg) /\ \A i \in exact : ValueOf(result, pkg) = lock[i].version
        ELSE IF byName # {}
             THEN HasKey(result, pkg) /\ ValueOf(result, pkg) = lock[pick].version
             ELSE ~HasKey(result, pkg)

\* C3 (as claimed): the exact key's version when that key exists; otherwise the
\* version of the FIRST entry, in iteration order, whose name portion equals the
\* declared name; otherwise the name is omitted.
C3_FirstMatchWins ==
    callPc = "returned" =>
        \A d \in DOMAIN callArgs[1] :
            LET pkg == callArgs[1][d][1]
                lock == callArgs[2]
                byName == {i \in DOMAIN lock : ClaimedKeyName(lock[i].key) = pkg}
            IN  ResolvedAs(callResult, lock, pkg, callArgs[1][d][2], byName,
                           IF byName = {} THEN 0 ELSE MinOf(byName))

\* C3 (amended): the exact key's version when that key exists; otherwise the
\* version of the LAST entry, in iteration order, whose key's first non-empty
\* '@'-separated segment equals the declared name (so a scoped name, which
\* starts with '@', is never matched by name); otherwise the name is omitted.
\* The result lists the resolved names in declaration order, each once.
C3_LastSegmentMatchWins ==
    callPc = "returned" =>
        /\ \A d \in DOMAIN callArgs[1] :
            LET pkg == callArgs[1][d][1]
                lock == callArgs[2]
                byName == {i \in DOMAIN lock :
                              \E a \in 0..Len(lock[i].key) :
                                  /\ \A b \in 1..a : Substr(lock[i].key, b, b) = "@"
                                  /\ Substr(lock[i].key, a + 1, a + Len(pkg)) = pkg
                                  /\ Len(pkg) > 0
                                  /\ Substr(pkg, 1, 1) # "@"
                                  /\ IndexOf(pkg, "@") = 0
                                  /\ \/ a + Len(pkg) = Len(lock[i].key)
                                     \/ Substr(lock[i].key, a + Len(pkg) + 1,
                                               a + Len(pkg) + 1) = "@"}
            IN  ResolvedAs(callResult, lock, pkg, callArgs[1][d][2], byName,
                           IF byName = {} THEN 0 ELSE MaxOf(byName))
        /\ \A i, j \in DOMAIN callResult :
               i < j => \E a, b \in DOMAIN callArgs[1] :
                           /\ a < b
                           /\ callArgs[1][a][1] = callResult[i][1]
                           /\ callArgs[1][b][1] = callResult[j][1]

\* Two entries of the declared name under other ranges, with different versions,
\* and no exact key: the name-only scan decides.
C3_Witness ==
    /\ callPc = "returned"
    /\ \E i, j \in DOMAIN callArgs[2] :
          /\ i < j
          /\ lockedPkg(callArgs[2][i].key) = "widget"
          /\ lockedPkg(callArgs[2][j].key) = "widget"
          /\ callArgs[2][i].version # callArgs[2][j].version
    /\ \A i \in DOMAIN callArgs[2] :
          callArgs[2][i].key # "widget@" \o ValueOf(callArgs[1], "widget")
    /\ HasKey(callResult, "widget")

(***************************************************************************)
(* The repository URL, line 116 and convertSshUrlToHttps, lines 153-162.   *)
(***************************************************************************)
convertSshUrlToHttps(sshUrl) ==
    IF StartsWith(sshUrl, "ssh://git@github.com/")
    THEN ReplaceFirst(sshUrl, "ssh://git@github.com/", "https://github.com/")
    ELSE IF StartsWith(sshUrl, "git@github.com:")
    THEN ReplaceFirst(sshUrl, "git@github.com:", "https://github.com/")
    ELSE IF StartsWith(sshUrl, "git://github.com/")
    THEN ReplaceFirst(sshUrl, "git://github.com/", "https://github.com/")
    ELSE sshUrl

\* convertSshUrlToHttps(repositoryUrl.replace('git+', '').replace('.git', ''))
canonicalRepoUrl(repositoryUrl) ==
    convertSshUrlToHttps(ReplaceFirst(ReplaceFirst(repositoryUrl, "git+", ""), ".git", ""))

(***************************************************************************)
(* SpecUrl: the repository URL of line 116 for every URL of RepoUrls.      *)
(***************************************************************************)
RepoMarkers == {"", "git+"}
RepoTransports == {"https://github.com/", "ssh://git@github.com/", "git@github.com:",
                   "git://github.com/", "ssh://git@gitlab.com/", "git@gitlab.com:",
                   "http://example.org/"}
RepoPaths == {"acme/widget", "acme/.github", "acme/my.github.io", "digit+/lib"}
RepoSuffixes == {"", ".git"}
RepoUrls == {m \o t \o p \o x : m \in RepoMarkers, t \in RepoTransports,
                                p \in RepoPaths, x \in RepoSuffixes}

InitUrl ==
    /\ MainIdle
    /\ callPc = "ready"
    /\ callArgs \in {<<u>> : u \in RepoUrls}
    /\ callResult = <<>>

CallCanonicalRepoUrl ==
    /\ callPc = "ready"
    /\ callPc' = "returned"
    /\ callResult' = <<canonicalRepoUrl(callArgs[1])>>
    /\ UNCHANGED <<callArgs, mainVars>>

SpecUrl == InitUrl /\ [][CallCanonicalRepoUrl]_vars

\* The normalization as the claim states it: the leading 'git+' and the trailing
\* '.git' only, then each transport form rewritten to https://host/...
ClaimedStripMarker(u) == IF StartsWith(u, "git+") THEN Substr(u, 5, Len(u)) ELSE u
ClaimedStripSuffix(u) == IF EndsWith(u, ".git") THEN Substr(u, 1, Len(u) - 4) ELSE u
ClaimedRewrite(u) ==
    IF StartsWith(u, "ssh://git@") THEN "https://" \o Substr(u, 11, Len(u))
    ELSE IF StartsWith(u, "git@") /\ IndexOf(u, ":") > 0
    THEN "https://" \o Substr(u, 5, IndexOf(u, ":") - 1) \o "/"
                    \o Substr(u, IndexOf(u, ":") + 1, Len(u))
    ELSE IF StartsWith(u, "git://") THEN "https://" \o Substr(u, 7, Len(u))
    ELSE u
ClaimedCanonical(u) == ClaimedRewrite(ClaimedStripSuffix(ClaimedStripMarker(u)))

\* C9 (as claimed): 'git+' is removed only as the leading marker and '.git' only
\* as the trailing suffix, any other occurrence staying intact, and the three
\* transport forms are rewritten to https://host/...
C9_StripsOnlyLeadingAndTrailing ==
    callPc = "returned" => callResult[1] = ClaimedCanonical(callArgs[1])

\* C9 (as claimed, on github.com URLs, whose three transport forms the code does
\* rewrite): 'git+' is removed only as the leading marker and '.git' only as the
\* trailing suffix, a '.git' or 'git+' inside the path staying intact.
C9_StripsOnlyLeadingAndTrailingOnGithub ==
    (callPc = "returned" /\ IndexOf(callArgs[1], "github.com") > 0
                         /\ IndexOf(callArgs[1], "gitlab.com") = 0)
        => callResult[1] = ClaimedCanonical(callArgs[1])

(***************************************************************************)
(* semver.parse, as calculateVersionDifference uses it (lines 179-181).    *)
(* The string is trimmed of surrounding white space and matched against    *)
(* the strict form                                                         *)
(*     v? MAJOR.MINOR.PATCH ( - PRERELEASE )? ( + BUILD )?                 *)
(* where each number has no leading zero, PRERELEASE is a dot-separated    *)
(* list of identifiers over [0-9A-Za-z-] whose all-digit members have no   *)
(* leading zero, and BUILD is a dot-separated list of non-empty            *)
(* identifiers over [0-9A-Za-z-].  The result keeps major, minor and       *)
(* patch, the only fields calculateVersionDifference reads.  A string of   *)
(* more than 256 characters does not parse, nor does one whose major,      *)
(* minor or patch exceeds Number.MAX_SAFE_INTEGER.  <<>> stands for null.  *)
(* The white space String.prototype.trim removes is modelled by its        *)
(* members a string of this module can hold: the space, U+0009 to U+000D,  *)
(* U+00A0, U+1680 and U+FEFF.  The separators U+2000 to U+200A, U+2028,    *)
(* U+2029, U+202F, U+205F and U+3000 cannot be written here.  Numbers      *)
(* are integers of the model checker, so that a component of more than     *)
(* nine digits, though parsed by the code when it is no greater than       *)
(* MAX_SAFE_INTEGER, is outside what NumberOf can evaluate.                *)
(***************************************************************************)
Digits == {"0", "1", "2", "3", "4", "5", "6", "7", "8", "9"}

Letters ==
    {"a", "b", "c", "d", "e", "f", "g", "h", "i", "j", "k", "l", "m",
     "n", "o", "p", "q", "r", "s", "t", "u", "v", "w", "x", "y", "z",
     "A", "B", "C", "D", "E", "F", "G", "H", "I", "J", "K", "L", "M",
     "N", "O", "P", "Q", "R", "S", "T", "U", "V", "W", "X", "Y", "Z"}

IdChars == Digits \cup Letters \cup {"-"}

\* space, tab, line feed, vertical tab, form feed, carriage return, U+00A0,
\* U+1680, U+FEFF
WhiteSpace == {" ", "\t", "\n", "", "\f", "\r", " ", " ", "﻿"}

\* Number.MAX_SAFE_INTEGER, 2^53 - 1, in decimal digits.
MAX_SAFE_INTEGER == "9007199254740991"

DigitValue(c) ==
    CASE c = "0" -> 0 [] c = "1" -> 1 [] c = "2" -> 2 [] c = "3" -> 3 [] c = "4" -> 4
      [] c = "5" -> 5 [] c = "6" -> 6 [] c = "7" -> 7 [] c = "8" -> 8 [] c = "9" -> 9

IsNumericId(s) ==
    /\ Len(s) >= 1
    /\ \A i \in 1..Len(s) : Substr(s, i, i) \in Digits
    /\ Len(s) > 1 => Substr(s, 1, 1) # "0"

\* a <= b for two strings of decimal digits of the same length.
RECURSIVE DigitsAtMost(_, _)
DigitsAtMost(a, b) ==
    IF a = "" THEN TRUE
    ELSE LET x == DigitValue(Substr(a, 1, 1))
             y == DigitValue(Substr(b, 1, 1))
         IN  IF x # y THEN x < y
             ELSE DigitsAtMost(Substr(a, 2, Len(a)), Substr(b, 2, Len(b)))

\* A numeric identifier whose value is at most MAX_SAFE_INTEGER.
IsSafeNumber(s) ==
    \/ Len(s) < Len(MAX_SAFE_INTEGER)
    \/ Len(s) = Len(MAX_SAFE_INTEGER) /\ DigitsAtMost(s, MAX_SAFE_INTEGER)

\* One identifier of a build tag: [0-9A-Za-z-]+
IsBuildId(s) ==
    /\ Len(s) >= 1
    /\ \A i \in 1..Len(s) : Substr(s, i, i) \in IdChars

\* One identifier of a prerelease tag: a number without a leading zero, or
\* an identifier over [0-9A-Za-z-] holding at least one letter or hyphen.
IsPrereleaseId(s) ==
    /\ IsBuildId(s)
    /\ (\A i \in 1..Len(s) : Substr(s, i, i) \in Digits) => IsNumericId(s)

\* A prerelease tag and a build tag: identifiers separated by dots.
IsPrereleaseTag(tag) ==
    LET ids == Split(tag, ".")
    IN  \A i \in 1..Len(ids) : IsPrereleaseId(ids[i])

IsBuildTag(tag) ==
    LET ids == Split(tag, ".")
    IN  \A i \in 1..Len(ids) : IsBuildId(ids[i])

RECURSIVE NumberOf(_)
NumberOf(s) ==
    IF s = "" THEN 0
    ELSE 10 * NumberOf(Substr(s, 1, Len(s) - 1)) + DigitValue(Substr(s, Len(s), Len(s)))

\* String.prototype.trim on the white space of WhiteSpace.
RECURSIVE trim(_)
trim(s) ==
    IF s = "" THEN s
    ELSE IF Substr(s, 1, 1) \in WhiteSpace THEN trim(Substr(s, 2, Len(s)))
    ELSE IF Substr(s, Len(s), Len(s)) \in WhiteSpace THEN trim(Substr(s, 1, Len(s) - 1))
    ELSE s

semverParse(version) ==
    IF ~IsString(version) THEN <<>>
    ELSE IF Len(version) > 256 THEN <<>>
    ELSE LET trimmed == trim(version)
             bare == IF StartsWith(trimmed, "v") THEN Substr(trimmed, 2, Len(trimmed))
                     ELSE trimmed
             plus == IndexOf(bare, "+")
             beforeBuild == IF plus = 0 THEN bare ELSE Substr(bare, 1, plus - 1)
             build == IF plus = 0 THEN "" ELSE Substr(bare, plus + 1, Len(bare))
             dash == IndexOf(beforeBuild, "-")
             main == IF dash = 0 THEN beforeBuild ELSE Substr(beforeBuild, 1, dash - 1)
             prerelease == IF dash = 0 THEN ""
                           ELSE Substr(beforeBuild, dash + 1, Len(beforeBuild))
             parts == Split(main, ".")
         IN  IF /\ Len(parts) = 3
                /\ \A i \in 1..3 : IsNumericId(parts[i]) /\ IsSafeNumber(parts[i])
                /\ dash # 0 => IsPrereleaseTag(prerelease)
                /\ plus # 0 => IsBuildTag(build)
             THEN <<[major |-> NumberOf(parts[1]), minor |-> NumberOf(parts[2]),
                     patch |-> NumberOf(parts[3])]>>
             ELSE <<>>

\* calculateVersionDifference, lines 178-188.
calculateVersionDifference(currentVersion, latestVersion) ==
    LET current == semverParse(currentVersion)
        latest == semverParse(latestVersion)
    IN  IF current = <<>> \/ latest = <<>> THEN 0
        ELSE (latest[1].major - current[1].major) * 10000
             + (latest[1].minor - current[1].minor) * 100
             + (latest[1].patch - current[1].patch)

versionDifferenceOf(update) ==
    calculateVersionDifference(update.currentVersion, update.latestVersion)

(***************************************************************************)
(* sortUpdates, lines 208-214: Array.prototype.sort with the comparator    *)
(* diffB - diffA.  The sort is stable (ECMAScript 2019, every Node.js the  *)
(* README admits): an element goes behind every element that does not sort *)
(* after it.                                                               *)
(***************************************************************************)
\* The comparator's verdict "a stays before b": diffB - diffA <= 0.
keepsBefore(a, b) == versionDifferenceOf(b) - versionDifferenceOf(a) <= 0

RECURSIVE insertUpdate(_, _)
insertUpdate(sorted, update) ==
    IF sorted = <<>> THEN <<update>>
    ELSE IF keepsBefore(Head(sorted), update)
         THEN <<Head(sorted)>> \o insertUpdate(Tail(sorted), update)
         ELSE <<update>> \o sorted

RECURSIVE sortFrom(_, _)
sortFrom(sorted, updates) ==
    IF updates = <<>> THEN sorted
    ELSE sortFrom(insertUpdate(sorted, Head(updates)), Tail(updates))

\* A plausible slip: the comparator diffA - diffB, which sorts ascending.
RECURSIVE insertAscending(_, _)
insertAscending(sorted, update) ==
    IF sorted = <<>> THEN <<update>>
    ELSE IF versionDifferenceOf(Head(sorted)) - versionDifferenceOf(update) <= 0
         THEN <<Head(sorted)>> \o insertAscending(Tail(sorted), update)
         ELSE <<update>> \o sorted

RECURSIVE sortAscendingFrom(_, _)
sortAscendingFrom(sorted, updates) ==
    IF updates = <<>> THEN sorted
    ELSE sortAscendingFrom(insertAscending(sorted, Head(updates)), Tail(updates))

sortUpdatesAscending(updates) == sortAscendingFrom(<<>>, updates)

sortUpdates(updates) == sortFrom(<<>>, updates)

(***************************************************************************)
(* The two filters of main, lines 245-249, and loadPriorityPackages.       *)
(***************************************************************************)
\* Array.prototype.includes on the list of priority names: strict equality.
includes(priorityPackages, pkg) ==
    \E i \in DOMAIN priorityPackages : priorityPackages[i] = pkg

RECURSIVE filterUpdates(_, _, _)
filterUpdates(updates, priorityPackages, wanted) ==
    IF updates = <<>> THEN <<>>
    ELSE (IF includes(priorityPackages, Head(updates).pkg) = wanted
          THEN <<Head(updates)>> ELSE <<>>)
         \o filterUpdates(Tail(updates), priorityPackages, wanted)

prioritizedUpdates(sorted, priorityPackages) ==
    filterUpdates(sorted, priorityPackages, TRUE)

\* A plausible slip: the second filter left out, every sorted record listed as other.
unfilteredUpdates(sorted, priorityPackages) == sorted

nonPriorityUpdates(sorted, priorityPackages) ==
    filterUpdates(sorted, priorityPackages, FALSE)

defaultPriorityPackages == <<"react", "axios", "express">>

(***************************************************************************)
(* loadPriorityPackages, lines 37-44.  A missing file is first written     *)
(* with the default list.  Line 42 then reads and parses the file with no  *)
(* try around it: on a file that exists and is not the JSON of an object   *)
(* it throws, and the throw leaves main.  Otherwise the result is the      *)
(* file's priorityPackages, or [] (here the list <<>>) when it has none.   *)
(***************************************************************************)
loadPriorityPackagesThrows(config) == config.exists /\ ~config.parses

loadPriorityPackages(config) ==
    IF config.exists THEN config.priorityPackages ELSE defaultPriorityPackages

\* The file as loadPriorityPackages leaves it when it does not throw.
configAfterLoad(config) ==
    [exists |-> TRUE, parses |-> TRUE, priorityPackages |-> loadPriorityPackages(config)]

(***************************************************************************)
(* getPackageInfo, lines 97-108, and the callback of getDependencyUpdates, *)
(* lines 111-142.  A registry answer is [status, latest, repositoryUrl,    *)
(* homepage]: status "error" is a failed request, "nodisttags" a body      *)
(* without dist-tags (reading .latest throws inside the try); both make    *)
(* getPackageInfo return null, here <<>>.                                  *)
(***************************************************************************)
getPackageInfo(answer) ==
    IF answer.status = "ok"
    THEN <<[latestVersion |-> answer.latest, repositoryUrl |-> answer.repositoryUrl,
            homepageUrl |-> answer.homepage]>>
    ELSE <<>>

\* A plausible slip: comparing the registry's version with the raw range.
isOutdatedRaw(pkgInfo, currentVersion) ==
    pkgInfo # <<>> /\ pkgInfo[1].latestVersion # currentVersion

\* Line 114: pkgInfo && pkgInfo.latestVersion !== normalizedCurrentVersion.
isOutdated(pkgInfo, currentVersion) ==
    pkgInfo # <<>> /\ pkgInfo[1].latestVersion # normalizeVersion(currentVersion)

\* Line 116: '' when the registry names no repository.  The caller has checked
\* that a truthy repositoryUrl is a string (otherwise .replace throws).
repoUrlOf(pkgInfo) ==
    IF Truthy(pkgInfo.repositoryUrl) THEN canonicalRepoUrl(pkgInfo.repositoryUrl) ELSE ""

npmVersionsPage(pkg) == "https://www.npmjs.com/package/" \o pkg \o "?activeTab=versions"

\* Lines 119-124, once checkReleases has answered for a non-empty repoUrl.
docUrlWithRepo(pkg, repoUrl, hasReleases, homepageUrl) ==
    IF hasReleases THEN repoUrl \o "/releases" ELSE npmVersionsPage(pkg)

\* Lines 129-133, when repoUrl is ''.
docUrlWithoutRepo(pkg, homepageUrl) ==
    IF Truthy(homepageUrl) THEN homepageUrl ELSE npmVersionsPage(pkg)

\* checkReleases, lines 164-176: response.data.length > 0, and false on any error.
checkReleases(probe) == probe = "some"

updateRecord(pkg, currentVersion, pkgInfo, docUrl) ==
    [pkg |-> pkg, currentVersion |-> normalizeVersion(currentVersion),
     latestVersion |-> pkgInfo.latestVersion, docUrl |-> docUrl]

(***************************************************************************)
(* Promise.all and updates.filter(update => update), lines 111 and 142:    *)
(* the results in the order of the input entries, the undefined ones       *)
(* (here <<>>) dropped.                                                    *)
(***************************************************************************)
RECURSIVE flatten(_)
flatten(results) ==
    IF results = <<>> THEN <<>> ELSE Head(results) \o flatten(Tail(results))

\* A plausible slip: results pushed to a shared array as the callbacks finish.
collectInSettleOrder(slots, order) == flatten([k \in DOMAIN order |-> slots[order[k]]])

collectUpdates(slots, order) == flatten(slots)

(***************************************************************************)
(* Spec: one run of main, lines 226-268.                                   *)
(***************************************************************************)
ManifestDependencies == << <<"react", "^1.0.0">>, <<"Widget", "~1.0.0">> >>
PkgNames == {"react", "Widget"}

ParsedLockfiles ==
    { << [key |-> "react@^1.0.0", version |-> "1.0.0"],
         [key |-> "Widget@^0.9.0", version |-> "1.3.0"] >>,
      << [key |-> "react@^1.0.0", version |-> "1.0.0"],
         [key |-> "Widget@~1.0.0", version |-> Undefined] >> }
Lockfiles ==
    {[state |-> "missing", entries |-> <<>>], [state |-> "unparseable", entries |-> <<>>]}
    \cup {[state |-> "parsed", entries |-> l] : l \in ParsedLockfiles}

ConfigFiles == {[exists |-> FALSE, parses |-> FALSE, priorityPackages |-> <<>>],
                [exists |-> TRUE, parses |-> FALSE, priorityPackages |-> <<>>],
                [exists |-> TRUE, parses |-> TRUE, priorityPackages |-> <<>>]}

LatestVersions == {"1.0.0", "1.3.0", "2.0.0-rc.1"}
RepositoryUrls == {Undefined, NonString, "git+", "git+ssh://git@github.com/acme/widget.git"}
HomepageUrls == {Undefined, "", "https://widget.dev"}
RegistryAnswers ==
    [status : {"ok"}, latest : LatestVersions, repositoryUrl : RepositoryUrls,
     homepage : HomepageUrls]
    \cup [status : {"error", "nodisttags"}, latest : {Undefined},
          repositoryUrl : {Undefined}, homepage : {Undefined}]
    \cup [status : {"ok"}, latest : {Undefined}, repositoryUrl : {Undefined},
          homepage : {Undefined}]
ProbeAnswers == {"error", "none", "some"}

\* Whether the run can put the release probe of this answer's repository.
Probed(answer) ==
    /\ answer.status = "ok"
    /\ IsString(answer.repositoryUrl)
    /\ ReplaceFirst(ReplaceFirst(answer.repositoryUrl, "git+", ""), ".git", "") # ""

Init ==
    /\ manifest \in {"missing", "unparseable", "ok"}
    /\ lockfile \in Lockfiles
    /\ configFile \in ConfigFiles
    /\ registry \in [PkgNames -> RegistryAnswers]
    /\ releases \in [PkgNames -> ProbeAnswers]
    \* one initial state per run: what is never read is held at one value
    /\ \A p \in PkgNames : ~Probed(registry[p]) => releases[p] = "none"
    /\ (manifest # "ok" \/ loadPriorityPackagesThrows(configFile)) =>
          /\ lockfile.state = "missing"
          /\ \A p \in PkgNames : registry[p].status = "error"
    /\ manifest # "ok" => ~(configFile.exists /\ configFile.parses)
    /\ mainPc = "start"
    /\ dependencies = <<>> /\ pkgPc = <<>> /\ slot = <<>> /\ settled = <<>>
    /\ queries = 0 /\ sortedUpdates = <<>>
    /\ priorityUpdates = <<>> /\ otherUpdates = <<>>
    /\ stderr = FALSE /\ exitCode = -1
    /\ callPc = "unused" /\ callArgs = <<>> /\ callResult = <<>>

Alive == exitCode = -1

RECURSIVE appendAll(_, _)
appendAll(seq, S) ==
    IF S = {} THEN seq
    ELSE LET i == CHOOSE x \in S : \A y \in S : x <= y
         IN  appendAll(Append(seq, i), S \ {i})

\* loadPriorityPackages throws at line 42, the first statement of the async
\* main: its promise rejects before the manifest is looked at, and nothing
\* handles it.  Node.js then reports the rejection and, by its default for the
\* version at hand, ends the process with status 1 (15 and later) or only warns
\* and lets it end with status 0 (12 to 14).
MainConfigUnparseable ==
    /\ mainPc = "start" /\ Alive
    /\ loadPriorityPackagesThrows(configFile)
    /\ stderr' = TRUE
    /\ exitCode' \in {0, 1}
    /\ mainPc' = "rejected"
    /\ UNCHANGED <<manifest, lockfile, configFile, registry, releases, dependencies,
                   pkgPc, slot, settled, queries, sortedUpdates, priorityUpdates,
                   otherUpdates, callVars>>

\* getPackagesFromPackageJson finds no file: console.error and process.exit(1).
MainManifestMissing ==
    /\ mainPc = "start" /\ Alive
    /\ manifest = "missing"
    /\ ~loadPriorityPackagesThrows(configFile)
    /\ configFile' = configAfterLoad(configFile)
    /\ stderr' = TRUE
    /\ exitCode' = 1
    /\ mainPc' = "exited"
    /\ UNCHANGED <<manifest, lockfile, registry, releases, dependencies, pkgPc, slot,
                   settled, queries, sortedUpdates, priorityUpdates, otherUpdates,
                   callVars>>

\* JSON.parse of the manifest throws inside the async main: its promise rejects
\* and nothing handles it, with the same two endings as above.
MainManifestUnparseable ==
    /\ mainPc = "start" /\ Alive
    /\ manifest = "unparseable"
    /\ ~loadPriorityPackagesThrows(configFile)
    /\ configFile' = configAfterLoad(configFile)
    /\ stderr' = TRUE
    /\ exitCode' \in {0, 1}
    /\ mainPc' = "rejected"
    /\ UNCHANGED <<manifest, lockfile, registry, releases, dependencies, pkgPc, slot,
                   settled, queries, sortedUpdates, priorityUpdates, otherUpdates,
                   callVars>>

\* main up to its await: the configuration, the manifest, the lockfile, and the
\* synchronous part of every callback of getDependencyUpdates (normalizeVersion,
\* then the registry request).  normalizeVersion throws on a version that is not
\* a string: that callback's promise is rejected at once, Promise.all rejects
\* with it and so does main, while the other callbacks' requests are under way.
MainStart ==
    /\ mainPc = "start" /\ Alive
    /\ manifest = "ok"
    /\ ~loadPriorityPackagesThrows(configFile)
    /\ configFile' = configAfterLoad(configFile)
    /\ LET deps == IF lockfile.state = "parsed"
                   THEN getPackagesFromYarnLock(ManifestDependencies, lockfile.entries)
                   ELSE ManifestDependencies
           thrown == {i \in DOMAIN deps : ~IsString(deps[i][2])}
       IN  /\ dependencies' = deps
           /\ pkgPc' = [i \in DOMAIN deps |->
                           IF i \in thrown THEN "rejected" ELSE "fetching"]
           /\ slot' = [i \in DOMAIN deps |-> <<>>]
           /\ settled' = appendAll(<<>>, thrown)
           /\ queries' = queries + Cardinality(DOMAIN deps \ thrown)
           /\ stderr' = (lockfile.state = "unparseable" \/ thrown # {})
           /\ IF thrown = {}
              THEN mainPc' = "awaiting" /\ exitCode' = exitCode
              ELSE mainPc' = "rejected" /\ exitCode' \in {-1, 1}
    /\ UNCHANGED <<manifest, lockfile, registry, releases, sortedUpdates,
                   priorityUpdates, otherUpdates, callVars>>

\* A callback settles: Promise.all, and main with it, rejects on the first
\* rejection; the runtime then ends the process (status 1) or only warns.
Settle(i, state, result, logged) ==
    /\ pkgPc' = [pkgPc EXCEPT ![i] = state]
    /\ slot' = [slot EXCEPT ![i] = result]
    /\ settled' = Append(settled, i)
    /\ IF state = "rejected" /\ mainPc = "awaiting"
       THEN mainPc' = "rejected" /\ stderr' = TRUE /\ exitCode' \in {-1, 1}
       ELSE stderr' = (stderr \/ logged) /\ UNCHANGED <<mainPc, exitCode>>

\* The registry request of callback i completes: lines 99-117 and 129-139.
FetchDone(i) ==
    /\ Alive
    /\ i \in DOMAIN pkgPc
    /\ pkgPc[i] = "fetching"
    /\ LET pkg == dependencies[i][1]
           currentVersion == dependencies[i][2]
           pkgInfo == getPackageInfo(registry[pkg])
       IN  IF ~isOutdated(pkgInfo, currentVersion)
           THEN /\ Settle(i, "resolved", <<>>, pkgInfo = <<>>)
                /\ UNCHANGED queries
           ELSE IF pkgInfo[1].repositoryUrl = NonString
           THEN /\ Settle(i, "rejected", <<>>, FALSE)
                /\ UNCHANGED queries
           ELSE IF repoUrlOf(pkgInfo[1]) # ""
           THEN /\ pkgPc' = [pkgPc EXCEPT ![i] = "probing"]
                /\ queries' = queries + 1
                /\ UNCHANGED <<slot, settled, mainPc, exitCode, stderr>>
           ELSE /\ Settle(i, "resolved",
                      <<updateRecord(pkg, currentVersion, pkgInfo[1],
                            docUrlWithoutRepo(pkg, pkgInfo[1].homepageUrl))>>,
                      FALSE)
                /\ UNCHANGED queries
    /\ UNCHANGED <<manifest, lockfile, configFile, registry, releases, dependencies,
                   sortedUpdates, priorityUpdates, otherUpdates, callVars>>

\* The release probe of callback i completes: lines 119-124 and 134-139.
ProbeDone(i) ==
    /\ Alive
    /\ i \in DOMAIN pkgPc
    /\ pkgPc[i] = "probing"
    /\ LET pkg == dependencies[i][1]
           pkgInfo == getPackageInfo(registry[pkg])[1]
       IN  Settle(i, "resolved",
                  <<updateRecord(pkg, dependencies[i][2], pkgInfo,
                        docUrlWithRepo(pkg, repoUrlOf(pkgInfo),
                                       checkReleases(releases[pkg]),
                                       pkgInfo.homepageUrl))>>,
                  releases[pkg] = "error")
    /\ UNCHANGED <<manifest, lockfile, configFile, registry, releases, dependencies,
                   queries, sortedUpdates, priorityUpdates, otherUpdates, callVars>>

\* Every callback has resolved: main resumes after its await, sorts, filters
\* and prints the two lists (lines 242-267); nothing is pending, the process ends.
MainResume ==
    /\ mainPc = "awaiting" /\ Alive
    /\ \A i \in DOMAIN pkgPc : pkgPc[i] = "resolved"
    /\ sortedUpdates' = sortUpdates(collectUpdates(slot, settled))
    /\ LET priorityPackages == loadPriorityPackages(configFile)
       IN  /\ priorityUpdates' = prioritizedUpdates(sortedUpdates', priorityPackages)
           /\ otherUpdates' = nonPriorityUpdates(sortedUpdates', priorityPackages)
    /\ mainPc' = "done"
    /\ exitCode' = 0
    /\ UNCHANGED <<manifest, lockfile, configFile, registry, releases, dependencies,
                   pkgPc, slot, settled, queries, stderr, callVars>>

\* main was rejected and the runtime only warned: once no callback is pending
\* the event loop is empty and the process ends with status 0.
ProcessDrain ==
    /\ mainPc = "rejected" /\ Alive
    /\ \A i \in DOMAIN pkgPc : pkgPc[i] \in {"resolved", "rejected"}
    /\ exitCode' = 0
    /\ UNCHANGED <<manifest, lockfile, configFile, registry, releases, mainPc,
                   dependencies, pkgPc, slot, settled, queries, sortedUpdates,
                   priorityUpdates, otherUpdates, stderr, callVars>>

Next ==
    \/ MainConfigUnparseable
    \/ MainManifestMissing
    \/ MainManifestUnparseable
    \/ MainStart
    \/ \E i \in 1..Len(ManifestDependencies) : FetchDone(i) \/ ProbeDone(i)
    \/ MainResume
    \/ ProcessDrain

Spec == Init /\ [][Next]_vars

(***************************************************************************)
(* Properties of a run of main (Spec).                                     *)
(***************************************************************************)
Done == mainPc = "done"
Emitted == priorityUpdates \o otherUpdates

\* C1 (as claimed): a repository with at least one release gives its releases
\* page; otherwise (no repository, no releases, failed probe) the homepage
\* whenever there is one; the registry's versions page only when neither
\* applies; never 'N/A' nor absent.
C1_HomepageBeforeRegistryPage ==
    Done =>
        \A k \in DOMAIN Emitted :
            LET r == Emitted[k]
                answer == registry[r.pkg]
            IN  /\ r.docUrl \notin {"N/A", Undefined}
                /\ r.docUrl =
                     IF Truthy(answer.repositoryUrl) /\ releases[r.pkg] = "some"
                     THEN canonicalRepoUrl(answer.repositoryUrl) \o "/releases"
                     ELSE IF Truthy(answer.homepage) THEN answer.homepage
                     ELSE npmVersionsPage(r.pkg)

\* C2 (as claimed): whatever happens to a single package (failed or malformed
\* registry answer, a repository URL that is no string, a lock entry without a
\* version, a failed probe), getDependencyUpdates completes and main goes on to
\* its output: once the configuration and the manifest are loaded, main is
\* never rejected.
C2_NoPackageAbortsTheBatch ==
    (manifest = "ok" /\ ~loadPriorityPackagesThrows(configFile)) => mainPc # "rejected"

\* C6: every emitted record has currentVersion # latestVersion, and when the
\* registry's latest version equals the normalized current version of every
\* dependency, nothing is emitted.
C6_NoInSyncRecord ==
    Done =>
        /\ \A k \in DOMAIN Emitted :
              Emitted[k].currentVersion # Emitted[k].latestVersion
        /\ \A i \in DOMAIN dependencies :
              (/\ registry[dependencies[i][1]].status = "ok"
               /\ registry[dependencies[i][1]].latest
                     = normalizeVersion(dependencies[i][2]))
                 => \A k \in DOMAIN Emitted : Emitted[k].pkg # dependencies[i][1]
        /\ (\A i \in DOMAIN dependencies :
               /\ registry[dependencies[i][1]].status = "ok"
               /\ registry[dependencies[i][1]].latest
                     = normalizeVersion(dependencies[i][2]))
              => Emitted = <<>>

\* A run from the manifest's ranges in which one dependency is in sync once its
\* range marker is stripped and is dropped, while the other one is emitted.
C6_Witness ==
    /\ Done
    /\ Len(Emitted) = 1
    /\ Len(dependencies) = 2
    /\ \E i \in DOMAIN dependencies :
          /\ dependencies[i][2] # normalizeVersion(dependencies[i][2])
          /\ registry[dependencies[i][1]].status = "ok"
          /\ registry[dependencies[i][1]].latest = normalizeVersion(dependencies[i][2])

\* C8 (as claimed): with the manifest missing or unparseable the run ends with a
\* non-zero status and an error message, no request issued, nothing printed.
C8_ManifestFailureEndsNonZero ==
    (manifest # "ok" /\ mainPc # "start") =>
        /\ exitCode \notin {-1, 0}
        /\ stderr
        /\ queries = 0
        /\ Emitted = <<>>
        /\ mainPc # "done"

\* What callback i resolves with when it runs alone from start to end.
ExpectedResult(i) ==
    LET pkg == dependencies[i][1]
        pkgInfo == getPackageInfo(registry[pkg])
    IN  IF ~isOutdated(pkgInfo, dependencies[i][2]) THEN <<>>
        ELSE <<updateRecord(pkg, dependencies[i][2], pkgInfo[1],
                   IF repoUrlOf(pkgInfo[1]) # ""
                   THEN docUrlWithRepo(pkg, repoUrlOf(pkgInfo[1]),
                                       checkReleases(releases[pkg]),
                                       pkgInfo[1].homepageUrl)
                   ELSE docUrlWithoutRepo(pkg, pkgInfo[1].homepageUrl))>>

ExpectedSorted == sortUpdates(flatten([i \in DOMAIN dependencies |-> ExpectedResult(i)]))

\* C10: the two lists are a function of the dependencies and of the registry's
\* and the probe's answers alone, whatever the order in which the requests
\* complete; and at every moment each slot holds nothing or its own package's
\* record.
C10_OutputIndependentOfCompletionOrder ==
    /\ Done =>
          /\ priorityUpdates
                = prioritizedUpdates(ExpectedSorted, loadPriorityPackages(configFile))
          /\ otherUpdates
                = nonPriorityUpdates(ExpectedSorted, loadPriorityPackages(configFile))
    /\ \A i \in DOMAIN slot :
          IF pkgPc[i] = "resolved" THEN slot[i] = ExpectedResult(i) ELSE slot[i] = <<>>

\* Both packages emitted with the same version distance, the second package's
\* callback having finished first.
C10_Witness ==
    /\ Done
    /\ settled = <<2, 1>>
    /\ Len(sortedUpdates) = 2
    /\ versionDifferenceOf(sortedUpdates[1]) = versionDifferenceOf(sortedUpdates[2])
    /\ queries = 4

(***************************************************************************)
(* SpecRank: main resuming after its await (lines 242-267) on every list   *)
(* of at most MaxUpdates update records with distinct names, and the       *)
(* priority lists of RankConfigs.                                          *)
(***************************************************************************)
MaxUpdates == 3
RankNames == {"react", "React", "axios", "widget"}
\* Pairs of a current and a latest version, each with the distance the formula
\* of the ranking gives it, worked out by hand: 1.0.0 to 1.0.5 between white
\* space (a vertical tab and a form feed before, a blank after); 1.0.0 to 3.0.0
\* under a prerelease and a build tag; one minor step; a range, which is no
\* version; a step back; and a major above Number.MAX_SAFE_INTEGER, which is
\* no version either.
RankCases ==
    { [currentVersion |-> "\f1.0.0 ", latestVersion |-> "1.0.5", distance |-> 5],
      [currentVersion |-> "1.0.0-rc.1", latestVersion |-> "3.0.0+build.5",
       distance |-> 20000],
      [currentVersion |-> "1.0.0", latestVersion |-> "1.1.0", distance |-> 100],
      [currentVersion |-> ">=1.0.0", latestVersion |-> "1.1.0", distance |-> 0],
      [currentVersion |-> "1.2.0", latestVersion |-> "1.1.9", distance |-> -91],
      [currentVersion |-> "1.0.0", latestVersion |-> "9007199254740992.0.0",
       distance |-> 0] }
RankVersions == {<<c.currentVersion, c.latestVersion>> : c \in RankCases}
RankRecords ==
    {[pkg |-> n, currentVersion |-> v[1], latestVersion |-> v[2],
      docUrl |-> npmVersionsPage(n)] : n \in RankNames, v \in RankVersions}
RankConfigs == {[exists |-> FALSE, parses |-> FALSE, priorityPackages |-> <<>>],
                [exists |-> TRUE, parses |-> TRUE,
                 priorityPackages |-> <<"widget", "React">>]}

RECURSIVE UpdateListsUpTo(_)
UpdateListsUpTo(n) ==
    IF n = 0 THEN {<<>>}
    ELSE LET shorter == UpdateListsUpTo(n - 1)
         IN  shorter \cup
             UNION {{Append(l, r) : r \in {x \in RankRecords :
                                              \A i \in DOMAIN l : l[i].pkg # x.pkg}} :
                    l \in {x \in shorter : Len(x) = n - 1}}

InitRank ==
    /\ manifest = "ok"
    /\ lockfile = [state |-> "missing", entries |-> <<>>]
    /\ configFile \in RankConfigs
    /\ registry = <<>> /\ releases = <<>>
    /\ mainPc = "awaiting"
    /\ \E l \in UpdateListsUpTo(MaxUpdates) :
          /\ dependencies = [i \in DOMAIN l |-> <<l[i].pkg, l[i].currentVersion>>]
          /\ pkgPc = [i \in DOMAIN l |-> "resolved"]
          /\ slot = [i \in DOMAIN l |-> <<l[i]>>]
          /\ settled = [i \in DOMAIN l |-> i]
          /\ queries = Len(l)
    /\ sortedUpdates = <<>> /\ priorityUpdates = <<>> /\ otherUpdates = <<>>
    /\ stderr = FALSE /\ exitCode = -1
    /\ callPc = "unused" /\ callArgs = <<>> /\ callResult = <<>>

SpecRank == InitRank /\ [][MainResume]_vars

PositionIn(list, r) == CHOOSE i \in DOMAIN list : list[i] = r

\* The distance of the claim for a record of RankRecords, as RankCases states it.
ClaimedDistance(r) ==
    (CHOOSE c \in RankCases : /\ c.currentVersion = r.currentVersion
                              /\ c.latestVersion = r.latestVersion).distance

\* The claimed distances and the input positions of the records of a list.
RECURSIVE ClaimedDistances(_)
ClaimedDistances(list) ==
    IF list = <<>> THEN <<>>
    ELSE <<ClaimedDistance(Head(list))>> \o ClaimedDistances(Tail(list))

RECURSIVE PositionsIn(_, _)
PositionsIn(input, list) ==
    IF list = <<>> THEN <<>>
    ELSE <<PositionIn(input, Head(list))>> \o PositionsIn(input, Tail(list))

\* C4: sortUpdates returns a permutation of its input in descending distance,
\* records of equal distance keeping their input order; the distance the code
\* computes is (latest.major - current.major) * 10000 + (latest.minor -
\* current.minor) * 100 + (latest.patch - current.patch), and 0 when a version
\* does not parse.
C4_StableDescendingSort ==
    Done =>
        LET input == flatten(slot)
            dist == ClaimedDistances(sortedUpdates)
            from == PositionsIn(input, sortedUpdates)
        IN  /\ Len(sortedUpdates) = Len(input)
            /\ \A i \in DOMAIN input :
                  \E j \in DOMAIN sortedUpdates : sortedUpdates[j] = input[i]
            /\ \A i, j \in DOMAIN sortedUpdates :
                  i < j => /\ dist[i] >= dist[j]
                           /\ dist[i] = dist[j] => from[i] < from[j]
            /\ \A i \in DOMAIN sortedUpdates :
                  calculateVersionDifference(sortedUpdates[i].currentVersion,
                                             sortedUpdates[i].latestVersion) = dist[i]

\* The example of the specification: distances 5, 20000, 100 sorted to 20000, 100, 5.
C4_SpecExample ==
    /\ Done
    /\ Len(slot) = 3
    /\ [i \in 1..3 |-> ClaimedDistance(slot[i][1])] = <<5, 20000, 100>>
    /\ [i \in 1..3 |-> ClaimedDistance(sortedUpdates[i])] = <<20000, 100, 5>>

\* Two records of distance 0, one with a malformed version and one with a
\* component above MAX_SAFE_INTEGER, kept in input order after a record whose
\* versions carry a prerelease and a build tag.
C4_Witness ==
    /\ Done
    /\ Len(slot) = 3
    /\ slot[1][1].currentVersion = ">=1.0.0"
    /\ slot[2][1].currentVersion = "1.0.0-rc.1"
    /\ slot[3][1].latestVersion = "9007199254740992.0.0"
    /\ sortedUpdates = <<slot[2][1], slot[1][1], slot[3][1]>>

Occurrences(list, r) == Cardinality({i \in DOMAIN list : list[i] = r})

\* C5: the two lists are disjoint and hold every sorted record exactly once, a
\* record being in the priority list exactly when its name is, case-sensitively,
\* one of the priority names; each list keeps the sorted order.
C5_PartitionCompleteDisjointOrdered ==
    Done =>
        LET names == {loadPriorityPackages(configFile)[i] :
                         i \in DOMAIN loadPriorityPackages(configFile)}
        IN  /\ Len(priorityUpdates) + Len(otherUpdates) = Len(sortedUpdates)
            /\ \A i \in DOMAIN sortedUpdates :
                  LET r == sortedUpdates[i] IN
                  /\ Occurrences(priorityUpdates, r) = (IF r.pkg \in names THEN 1 ELSE 0)
                  /\ Occurrences(otherUpdates, r) = (IF r.pkg \in names THEN 0 ELSE 1)
            /\ \A a, b \in DOMAIN priorityUpdates :
                  a < b => PositionIn(sortedUpdates, priorityUpdates[a])
                              < PositionIn(sortedUpdates, priorityUpdates[b])
            /\ \A a, b \in DOMAIN otherUpdates :
                  a < b => PositionIn(sortedUpdates, otherUpdates[a])
                              < PositionIn(sortedUpdates, otherUpdates[b])

\* 'react' is a default priority name and 'React' is not: one in each list.
C5_Witness ==
    /\ Done
    /\ ~configFile.exists
    /\ Len(priorityUpdates) = 1 /\ priorityUpdates[1].pkg = "react"
    /\ Len(otherUpdates) = 2
    /\ \E i \in DOMAIN otherUpdates : otherUpdates[i].pkg = "React"

=============================================================================
